---- MODULE Spec2Model ----
(***************************************************************************)
(* utiljs-pro (src/src/index.ts): the timing wrappers throttle and         *)
(* debounce over the host's one-shot timer facility, and the type          *)
(* predicates isIndexOf, isArray, isIndexable, isPromise, isAsyncFunction, *)
(* and sleep, unique, remove and randomString.                             *)
(*                                                                         *)
(* Spec     : wrappers made by throttle/debounce are called, time passes   *)
(*            and the host runs timer callbacks, one run-to-completion job *)
(*            at a time.                                                   *)
(* FairSpec : Spec under a host that keeps time and runs due timeouts.     *)
(* PredSpec : the predicates applied to values drawn from bounded sets.    *)
(* SleepSpec: sleep(ms) called, time passing, the host running timeouts;   *)
(*            SleepFairSpec adds the host's fairness.                      *)
(* ArraySpec: unique, remove and randomString applied to bounded inputs.   *)
(*                                                                         *)
(* What the library is given and does not implement:                       *)
(*  - fn returns or raises; it does not call a wrapper from inside itself. *)
(*  - setTimeout returns a truthy handle that no other timeout of the run  *)
(*    was given, and runs the callback in a later job, not before the      *)
(*    delay has elapsed (possibly later); delays are within the host's     *)
(*    range.                                                               *)
(***************************************************************************)
EXTENDS Integers, Sequences, FiniteSets, TLC

VARIABLES
    wrappers,   \* the closures returned by throttle/debounce: kind, delay, timer
    timers,     \* the host's registered, not yet fired, not cleared timeouts
    nextId,     \* the handle the host's next setTimeout returns
    hist,       \* per wrapper: what was called and what fn saw (observation only)
    last,       \* the job that ran last (observation only)
    probe,      \* the pure function applied last, its arguments and outcome
    promises    \* SleepSpec: the Promises sleep has returned, in order

vars == <<wrappers, timers, nextId, hist, last, probe, promises>>

----------------------------------------------------------------------------
(* Bounds *)

\* wrappers made by throttle/debounce in one run
MaxWrappers == 2
\* wrapper calls in one run, all wrappers together
MaxCalls == 3
\* the largest delay handed to throttle/debounce
MaxDelay == 1

\* the arguments a wrapper is called with
Args == {"a", "b"}
\* the delays handed to throttle/debounce: negative, zero and positive
Delays == {-1, 0, MaxDelay}

\* `timer = null`: no handle. setTimeout returns a truthy handle (a positive
\* integer in browsers, a Timeout object in Node), never this.
null == 0

----------------------------------------------------------------------------
(* The host's timer facility, as index.ts uses it *)

\* A one-shot timeout is never run inside the setTimeout call: it waits for a
\* later job, and a delay below zero waits as a delay of zero does.
HostDelay(delay) == IF delay > 0 THEN delay ELSE 0

\* setTimeout(cb, delay): registers cb under the handle nextId
setTimeout(ts, id, w, cb, arg, delay) ==
    ts \cup {[id |-> id, w |-> w, cb |-> cb, arg |-> arg, remaining |-> HostDelay(delay)]}

\* a clearTimeout that cancels nothing
clearTimeout_Noop(ts, handle) == ts

\* clearTimeout(handle): drops the timeout registered under handle, if any
clearTimeout(ts, handle) == {t \in ts : t.id # handle}

\* the timeouts wrapper w has registered and that can still fire
Pending(w) == {t \in timers : t.w = w}

\* a timeout the host may run now: its delay has elapsed
Due(t) == t.remaining = 0

----------------------------------------------------------------------------
(* Observation *)

\* per wrapper: wrapper calls made, fn invocations caused, bursts of debounced
\* calls begun, the calls fn has not consumed yet (how many, whether their
\* arguments differ, whether each came before the previous one's delay had
\* elapsed), the arguments of the latest call, the milliseconds since the
\* throttled wrapper last ran fn or the debounced wrapper was last called
\* (-1: never; counted up to the wrapper's delay), and whether that run of fn
\* raised
NoHist == [calls |-> 0, invoked |-> 0, bursts |-> 0, pendingCalls |-> 0,
           varied |-> FALSE, inWindow |-> TRUE, lastCallArg |-> "none",
           since |-> -1, threw |-> FALSE]

\* the job that ran last, when it was a wrapper call or a callback that ran fn
NoEvent == [op |-> "none", w |-> 0, arg |-> "none", invoked |-> FALSE,
            fnArg |-> "none", threw |-> FALSE, hadTimer |-> FALSE,
            consumed |-> 0, varied |-> FALSE, inWindow |-> TRUE,
            since |-> -1, prevThrew |-> FALSE]

TotalCalls == LET S[i \in 0 .. Len(hist)] ==
                      IF i = 0 THEN 0 ELSE S[i - 1] + hist[i].calls
              IN  S[Len(hist)]

\* Spec applies no predicate
NoProbe == [fn |-> "none"]

----------------------------------------------------------------------------
(* throttle(fn, delay) and debounce(fn, delay): each call makes a new closure *)

\* `let timer = null; return (...args) => ...`
NewWrapper(kind, delay) == [kind |-> kind, delay |-> delay, timer |-> null]

\* throttle(fn, delay)
throttle(delay) == NewWrapper("throttle", delay)

\* debounce(fn, delay)
debounce(delay) == NewWrapper("debounce", delay)

\* the closures a program can hold after making n of them, listed in one order
\* (which closure is called first is the caller's choice, not the list's); the
\* host treats a negative delay as zero, and it is the throttled wrappers that
\* are made with one here
Made(n) == {ws \in [1 .. n -> {throttle(d) : d \in Delays} \cup {debounce(d) : d \in Delays \ {-1}}] :
               \A i \in 1 .. n - 1 :
                  \/ ws[i].kind = "throttle" /\ ws[i + 1].kind = "debounce"
                  \/ ws[i].kind = ws[i + 1].kind /\ ws[i].delay <= ws[i + 1].delay}

----------------------------------------------------------------------------
(* The throttled wrapper: (...args) => { if (!timer) { fn(...args);        *)
(*   timer = setTimeout(() => { timer = null }, delay) } }                 *)

\* `timer` declared once for all closures instead of inside each
TimerOf_Shared(w) == wrappers[1].timer

\* the closure's own `timer` variable
TimerOf(w) == wrappers[w].timer

\* the test `!timer` left out: every call is taken as eligible
ThrottleEligible_Always(w) == TRUE

\* the wrapper's test `!timer`
ThrottleEligible(w) == TimerOf(w) = null

\* `fn()` instead of `fn(...args)`
ThrottleFnArgs_Dropped(arg) == "none"

\* what fn receives: `fn(...args)`
ThrottleFnArgs(arg) == arg

\* `try { fn(...args) } finally { timer = setTimeout(...) }`: the cooldown is
\* started also when fn raised
ThrottledCall_Finally(w, arg, threw) ==
    /\ w \in 1 .. Len(wrappers)
    /\ wrappers[w].kind = "throttle"
    /\ TotalCalls < MaxCalls
    /\ IF ThrottleEligible(w)
       THEN /\ hist' = [hist EXCEPT ![w].calls = @ + 1, ![w].invoked = @ + 1,
                                    ![w].since = 0, ![w].threw = threw]
            /\ timers' = setTimeout(timers, nextId, w, "cooldown", "none",
                                    wrappers[w].delay)
            /\ wrappers' = [wrappers EXCEPT ![w].timer = nextId]
            /\ nextId' = nextId + 1
            /\ last' = [NoEvent EXCEPT !.op = "call", !.w = w, !.arg = arg,
                                       !.invoked = TRUE, !.fnArg = ThrottleFnArgs(arg),
                                       !.threw = threw,
                                       !.hadTimer = (Pending(w) # {}),
                                       !.since = hist[w].since,
                                       !.prevThrew = hist[w].threw]
       ELSE /\ hist' = [hist EXCEPT ![w].calls = @ + 1]
            /\ last' = [NoEvent EXCEPT !.op = "call", !.w = w, !.arg = arg,
                                       !.hadTimer = (Pending(w) # {}),
                                       !.since = hist[w].since,
                                       !.prevThrew = hist[w].threw]
            /\ UNCHANGED <<wrappers, timers, nextId>>
    /\ UNCHANGED <<probe, promises>>

\* threw: fn(...args) raised, so the statement after it never ran
ThrottledCall(w, arg, threw) ==
    /\ w \in 1 .. Len(wrappers)
    /\ wrappers[w].kind = "throttle"
    /\ TotalCalls < MaxCalls
    /\ IF ThrottleEligible(w)
       THEN /\ hist' = [hist EXCEPT ![w].calls = @ + 1, ![w].invoked = @ + 1,
                                    ![w].since = 0, ![w].threw = threw]
            /\ IF threw
               THEN UNCHANGED <<wrappers, timers, nextId>>
               ELSE /\ timers' = setTimeout(timers, nextId, w, "cooldown", "none",
                                            wrappers[w].delay)
                    /\ wrappers' = [wrappers EXCEPT ![w].timer = nextId]
                    /\ nextId' = nextId + 1
            /\ last' = [NoEvent EXCEPT !.op = "call", !.w = w, !.arg = arg,
                                       !.invoked = TRUE, !.fnArg = ThrottleFnArgs(arg),
                                       !.threw = threw,
                                       !.hadTimer = (Pending(w) # {}),
                                       !.since = hist[w].since,
                                       !.prevThrew = hist[w].threw]
       ELSE /\ hist' = [hist EXCEPT ![w].calls = @ + 1]
            /\ last' = [NoEvent EXCEPT !.op = "call", !.w = w, !.arg = arg,
                                       !.hadTimer = (Pending(w) # {}),
                                       !.since = hist[w].since,
                                       !.prevThrew = hist[w].threw]
            /\ UNCHANGED <<wrappers, timers, nextId>>
    /\ UNCHANGED <<probe, promises>>

\* a cooldown callback that forgets `timer = null`
CooldownExpire_KeepsHandle(t) ==
    /\ t \in timers
    /\ t.cb = "cooldown"
    /\ Due(t)
    /\ timers' = timers \ {t}
    /\ last' = NoEvent
    /\ UNCHANGED <<wrappers, nextId, hist, probe, promises>>

\* the cooldown callback: () => { timer = null }
CooldownExpire(t) ==
    /\ t \in timers
    /\ t.cb = "cooldown"
    /\ Due(t)
    /\ timers' = timers \ {t}
    /\ wrappers' = [wrappers EXCEPT ![t.w].timer = null]
    /\ last' = NoEvent
    /\ UNCHANGED <<nextId, hist, probe, promises>>

----------------------------------------------------------------------------
(* The debounced wrapper: (...args) => { if (timer) { clearTimeout(timer) } *)
(*   timer = setTimeout(() => { fn(...args) }, delay) }                    *)

\* the pending invocation is not cancelled
DebounceClear_None(ts, handle) == ts

\* `if (timer) { clearTimeout(timer) }`
DebounceClear(ts, handle) == IF handle # null THEN clearTimeout(ts, handle) ELSE ts

\* a debounce with a leading edge: the first call of a burst runs fn at once
DebouncedCall_Leading(w, arg) ==
    /\ w \in 1 .. Len(wrappers)
    /\ wrappers[w].kind = "debounce"
    /\ TotalCalls < MaxCalls
    /\ timers' = setTimeout(DebounceClear(timers, TimerOf(w)), nextId, w,
                            "invoke", arg, wrappers[w].delay)
    /\ wrappers' = [wrappers EXCEPT ![w].timer = nextId]
    /\ nextId' = nextId + 1
    /\ hist' = [hist EXCEPT
                 ![w].calls = @ + 1,
                 ![w].invoked = IF Pending(w) = {} THEN @ + 1 ELSE @,
                 ![w].lastCallArg = arg,
                 ![w].bursts = IF hist[w].pendingCalls = 0 THEN @ + 1 ELSE @,
                 ![w].pendingCalls = @ + 1,
                 ![w].since = 0]
    /\ last' = [NoEvent EXCEPT !.op = "call", !.w = w, !.arg = arg,
                               !.invoked = (Pending(w) = {}), !.fnArg = arg,
                               !.hadTimer = (Pending(w) # {}),
                               !.since = hist[w].since]
    /\ UNCHANGED <<probe, promises>>

DebouncedCall(w, arg) ==
    /\ w \in 1 .. Len(wrappers)
    /\ wrappers[w].kind = "debounce"
    /\ TotalCalls < MaxCalls
    /\ timers' = setTimeout(DebounceClear(timers, TimerOf(w)), nextId, w,
                            "invoke", arg, wrappers[w].delay)
    /\ wrappers' = [wrappers EXCEPT ![w].timer = nextId]
    /\ nextId' = nextId + 1
    /\ hist' = [hist EXCEPT
                 ![w].calls = @ + 1,
                 ![w].lastCallArg = arg,
                 ![w].bursts = IF hist[w].pendingCalls = 0 THEN @ + 1 ELSE @,
                 ![w].pendingCalls = @ + 1,
                 ![w].varied = hist[w].pendingCalls > 0
                               /\ (@ \/ hist[w].lastCallArg # arg),
                 ![w].inWindow = IF hist[w].pendingCalls = 0 THEN TRUE
                                 ELSE @ /\ hist[w].since < wrappers[w].delay,
                 ![w].since = 0]
    /\ last' = [NoEvent EXCEPT !.op = "call", !.w = w, !.arg = arg,
                               !.hadTimer = (Pending(w) # {}),
                               !.since = hist[w].since]
    /\ UNCHANGED <<probe, promises>>

\* a scheduled callback that also nulls the handle once fn has run
DebounceFire_ClearsHandle(t) ==
    /\ t \in timers
    /\ t.cb = "invoke"
    /\ Due(t)
    /\ timers' = timers \ {t}
    /\ wrappers' = [wrappers EXCEPT ![t.w].timer = null]
    /\ hist' = [hist EXCEPT ![t.w].invoked = @ + 1,
                            ![t.w].pendingCalls = 0,
                            ![t.w].varied = FALSE,
                            ![t.w].inWindow = TRUE]
    /\ last' = [NoEvent EXCEPT !.op = "fire", !.w = t.w, !.invoked = TRUE,
                               !.fnArg = t.arg,
                               !.hadTimer = TRUE,
                               !.consumed = hist[t.w].pendingCalls,
                               !.varied = hist[t.w].varied,
                               !.inWindow = hist[t.w].inWindow,
                               !.since = hist[t.w].since]
    /\ UNCHANGED <<nextId, probe, promises>>

\* the scheduled callback: () => { fn(...args) }. Nothing follows fn in it, so
\* whether fn raises changes nothing the wrapper or the host keeps.
DebounceFire(t) ==
    /\ t \in timers
    /\ t.cb = "invoke"
    /\ Due(t)
    /\ timers' = timers \ {t}
    /\ hist' = [hist EXCEPT ![t.w].invoked = @ + 1,
                            ![t.w].pendingCalls = 0,
                            ![t.w].varied = FALSE,
                            ![t.w].inWindow = TRUE]
    /\ last' = [NoEvent EXCEPT !.op = "fire", !.w = t.w, !.invoked = TRUE,
                               !.fnArg = t.arg,
                               !.hadTimer = TRUE,
                               !.consumed = hist[t.w].pendingCalls,
                               !.varied = hist[t.w].varied,
                               !.inWindow = hist[t.w].inWindow,
                               !.since = hist[t.w].since]
    /\ UNCHANGED <<wrappers, nextId, probe, promises>>

----------------------------------------------------------------------------
(* The host's clock: one millisecond passes for every registered timeout *)

\* the observed milliseconds of wrapper w can still grow
Counting(w) == hist[w].since >= 0 /\ hist[w].since < HostDelay(wrappers[w].delay)

Tick ==
    /\ \/ \E t \in timers : t.remaining > 0
       \/ \E w \in 1 .. Len(wrappers) : Counting(w)
    /\ timers' = {[t EXCEPT !.remaining = IF @ > 0 THEN @ - 1 ELSE 0] : t \in timers}
    /\ hist' = [w \in 1 .. Len(wrappers) |->
                 IF Counting(w) THEN [hist[w] EXCEPT !.since = @ + 1] ELSE hist[w]]
    /\ last' = NoEvent
    /\ UNCHANGED <<wrappers, nextId, probe, promises>>

----------------------------------------------------------------------------

Init ==
    /\ wrappers \in Made(MaxWrappers)
    /\ timers = {}
    /\ nextId = 1
    /\ hist = [w \in 1 .. MaxWrappers |-> NoHist]
    /\ last = NoEvent
    /\ probe = NoProbe
    /\ promises = << >>

Next ==
    \/ \E w \in 1 .. MaxWrappers, a \in Args, threw \in BOOLEAN : ThrottledCall(w, a, threw)
    \/ \E t \in timers : CooldownExpire(t)
    \/ \E w \in 1 .. MaxWrappers, a \in Args : DebouncedCall(w, a)
    \/ \E t \in timers : DebounceFire(t)
    \/ Tick

Spec == Init /\ [][Next]_vars

\* The host keeps its clock running and runs a timeout that is due and stays
\* registered.
FairSpec ==
    /\ Spec
    /\ WF_vars(Tick)
    /\ WF_vars(\E t \in timers : CooldownExpire(t))
    /\ WF_vars(\E t \in timers : DebounceFire(t))

----------------------------------------------------------------------------
(* Properties of throttle and debounce, checked under Spec *)

Throttles == {w \in 1 .. Len(wrappers) : wrappers[w].kind = "throttle"}
Debounces == {w \in 1 .. Len(wrappers) : wrappers[w].kind = "debounce"}

\* the job that ran last was a call of wrapper w
Called(w) == last.op = "call" /\ last.w = w

\* the job that ran last was the scheduled callback of debounced wrapper w
Fired(w) == last.op = "fire" /\ last.w = w

\* the call that ran last came less than delay ms after the throttled wrapper
\* last ran fn
InCooldownWindow(w) == last.since >= 0 /\ last.since < wrappers[w].delay

C2_BurstInvariant ==
    \A w \in Debounces :
        wrappers[w].delay > 0 =>
            /\ Fired(w) /\ last.inWindow =>
                  /\ last.consumed >= 1
                  /\ last.fnArg = hist[w].lastCallArg
                  /\ last.since >= wrappers[w].delay
                  /\ Pending(w) = {}
            /\ hist[w].invoked + (IF hist[w].pendingCalls > 0 THEN 1 ELSE 0)
                  = hist[w].bursts
            /\ hist[w].pendingCalls > 0 =>
                  \E t \in Pending(w) : /\ Pending(w) = {t}
                                        /\ t.arg = hist[w].lastCallArg

\* C2: for delay > 0, a burst of N >= 1 calls of a debounced wrapper, each made
\* less than delay ms after the previous one, leads to exactly one invocation
\* of fn: it runs no sooner than delay ms after the last call, it receives the
\* last call's arguments, it consumes all N calls, and no other scheduled
\* invocation of the burst is left to fire (the earlier ones were cancelled),
\* so the invocations counted are one per burst whose timer has fired; and
\* once the calls have stopped, under the host's fairness, the invocation of
\* every burst has happened.
C2_DebounceBurst ==
    /\ []C2_BurstInvariant
    /\ <>[](\A w \in Debounces : wrappers[w].delay > 0 => hist[w].pendingCalls = 0)

\* a debounced wrapper with delay > 0 was called twice inside the window with
\* different arguments, and then its callback ran fn
C2_Witness ==
    \E w \in Debounces :
        /\ wrappers[w].delay > 0
        /\ Fired(w) /\ last.inWindow /\ last.consumed >= 2 /\ last.varied

\* C3: every wrapper has at most one timeout registered with the host that can
\* still fire.
C3_OneLiveTimer ==
    \A w \in 1 .. Len(wrappers) : Cardinality(Pending(w)) <= 1

\* a debounced wrapper was called while its timeout was pending, and a throttled
\* wrapper is cooling down
C3_Witness ==
    /\ \E w \in Debounces : Called(w) /\ last.hadTimer /\ Cardinality(Pending(w)) = 1
    /\ \E w \in Throttles : Cardinality(Pending(w)) = 1

\* C4: a throttled wrapper's fn is invoked only inside a call of that wrapper
\* made while no cooldown timer is pending, once, with that call's arguments;
\* no step taken while the cooldown timer is pending (a call, the timer's
\* callback) invokes fn.
C4_ThrottleNoTrailing ==
    [][\A w \in Throttles :
          /\ hist'[w].invoked # hist[w].invoked =>
                /\ Called(w)'
                /\ hist'[w].calls = hist[w].calls + 1
                /\ hist'[w].invoked = hist[w].invoked + 1
                /\ Pending(w) = {}
                /\ last'.fnArg = last'.arg
          /\ Pending(w) # {} => hist'[w].invoked = hist[w].invoked]_vars

\* a throttled wrapper ran fn, then dropped a call, and its cooldown timer has
\* fired since without running fn
C4_Witness ==
    \E w \in Throttles :
        /\ hist[w].calls = 2 /\ hist[w].invoked = 1
        /\ TimerOf(w) = null /\ ~hist[w].threw

\* C5: a debounced wrapper's fn is invoked only by the host running a timeout
\* that an earlier call registered, never inside a call of the wrapper; each
\* invocation consumes at least one call.
C5_DebounceNoLeading ==
    [][\A w \in Debounces :
          hist'[w].invoked # hist[w].invoked =>
              /\ Fired(w)'
              /\ hist'[w].calls = hist[w].calls
              /\ hist'[w].invoked = hist[w].invoked + 1
              /\ \E t \in Pending(w) : Due(t) /\ timers' = timers \ {t}
              /\ hist[w].pendingCalls >= 1
              /\ last'.consumed = hist[w].pendingCalls]_vars

\* a debounced wrapper was called without fn running, and its callback ran fn
\* later
C5_Witness ==
    \E w \in Debounces : Fired(w) /\ hist[w].calls >= 1 /\ hist[w].invoked = 1

C7_AsStated ==
    \A w \in 1 .. Len(wrappers) : TimerOf(w) # null <=> Pending(w) # {}

\* C7, amended: a pending timeout of a wrapper is the one its handle names; the
\* throttled wrapper's handle is null exactly when no cooldown timer is pending
\* (the cooldown callback nulls it); the debounced wrapper's handle is null only
\* before its first call: after the scheduled invocation has fired the handle
\* still names the fired timeout until the next call replaces it.
C7_HandleLifecycle ==
    \A w \in 1 .. Len(wrappers) :
        /\ \A t \in Pending(w) : t.id = TimerOf(w)
        /\ w \in Throttles => (TimerOf(w) = null <=> Pending(w) = {})
        /\ w \in Debounces => (TimerOf(w) = null <=> hist[w].calls = 0)

\* a debounced wrapper's callback has fired and its handle still names it, and
\* a throttled wrapper's handle was nulled by its cooldown callback
C7_Witness ==
    /\ \E w \in Debounces : Fired(w) /\ TimerOf(w) # null /\ Pending(w) = {}
    /\ \E w \in Throttles : hist[w].invoked = 1 /\ ~hist[w].threw /\ TimerOf(w) = null

\* wrapper v was called, or the host ran its timeout, in this step
Acted(v) ==
    \/ hist'[v].calls # hist[v].calls
    \/ \E t \in Pending(v) : \A u \in timers' : u.id # t.id

\* C8: a step in which one wrapper is called or its timeout fires leaves every
\* other wrapper's handle, pending timeouts (their arguments and remaining
\* delay) and observed history unchanged.
C8_Independent ==
    [][\A v \in 1 .. Len(wrappers) : \A w \in 1 .. Len(wrappers) :
          v # w /\ Acted(v) =>
              /\ wrappers'[w] = wrappers[w]
              /\ Pending(w)' = Pending(w)
              /\ hist'[w] = hist[w]]_vars

\* a wrapper was called while another wrapper had a timeout pending, which is
\* still pending
C8_Witness ==
    \E v \in 1 .. Len(wrappers) : \E w \in 1 .. Len(wrappers) :
        /\ v # w
        /\ Called(v) /\ Pending(v) # {}
        /\ Pending(w) # {} /\ TimerOf(w) # null /\ hist[w].calls >= 1

----------------------------------------------------------------------------
(* JavaScript values, as far as the predicates tell them apart *)

\* the longest array handed to a predicate
MaxLen == 2
\* the longest string handed to isIndexOf
MaxStrLen == 3

Digits == {"0", "1", "2"}
\* the characters of the strings: digits, a sign, a point, white space, a letter
Chars == Digits \cup {"-", ".", " ", "a"}

DigitVal(c) == CASE c = "0" -> 0 [] c = "1" -> 1 [] c = "2" -> 2

\* a number: NaN, an infinity, or the finite value n / d (d > 0). -0 is kept as
\* 0: `>=`, `<` and Number.isInteger do not tell them apart.
Num(k, n, d) == [t |-> "number", k |-> k, n |-> n, d |-> d]
Fin(n, d) == Num("fin", n, d)
NaN == Num("nan", 0, 1)
Infinity == Num("inf", 1, 1)
NegInfinity == Num("inf", -1, 1)
Str(s) == [t |-> "string", s |-> s]
Arr(len) == [t |-> "array", len |-> len]
Other(t) == [t |-> t]

\* a function value: whether it was declared async, and its source text as
\* Function.prototype.toString gives it, cut into pieces of which "async" is one
Fun(async, text) == [t |-> "function", async |-> async, text |-> text]

Numbers == {Fin(n, d) : n \in -2 .. 2 * (MaxLen + 1), d \in {1, 2}}
              \cup {NaN, Infinity, NegInfinity}
Strings == {Str(s) : s \in UNION {[1 .. k -> Chars] : k \in 0 .. MaxStrLen}}
Arrays == {Arr(n) : n \in 0 .. MaxLen}
\* async arrow, function and method; plain arrow and function; and two that
\* are not async although their text begins with those letters: the method
\* `asyncTask() {}` and the arrow `async => 1` whose parameter is named async
Functions == {Fun(TRUE, <<"async", " () => {}">>),
              Fun(TRUE, <<"async", " function f() {}">>),
              Fun(TRUE, <<"async", " m() {}">>),
              Fun(FALSE, <<"() => {}">>),
              Fun(FALSE, <<"function f() {}">>),
              Fun(FALSE, <<"async", "Task() {}">>),
              Fun(FALSE, <<"async", " => 1">>)}
\* null, undefined, booleans, symbols, plain objects, a thenable that is no
\* Promise, Promises, Dates/Sets/Maps/Errors/RegExps (objects with no length)
Others == {Other("null"), Other("undefined"), Other("true"), Other("false"),
           Other("symbol"), Other("object"), Other("thenable"), Other("promise")}

Values == Numbers \cup Strings \cup Arrays \cup Functions \cup Others

\* `typeof v`
typeof(v) ==
    CASE v.t \in {"number", "string", "function", "symbol", "undefined"} -> v.t
      [] v.t \in {"true", "false"} -> "boolean"
      [] OTHER -> "object"

\* ToBoolean of a string: the empty string is falsy
Truthy(v) == v.t = "string" => v.s # << >>

RECURSIVE TrimStart(_)
TrimStart(s) == IF s # << >> /\ Head(s) = " " THEN TrimStart(Tail(s)) ELSE s

RECURSIVE TrimEnd(_)
TrimEnd(s) == IF s # << >> /\ s[Len(s)] = " " THEN TrimEnd(SubSeq(s, 1, Len(s) - 1)) ELSE s

RECURSIVE DigitsValue(_)
DigitsValue(s) == IF s = << >> THEN 0
                  ELSE 10 * DigitsValue(SubSeq(s, 1, Len(s) - 1)) + DigitVal(s[Len(s)])

RECURSIVE Pow10(_)
Pow10(k) == IF k = 0 THEN 1 ELSE 10 * Pow10(k - 1)

\* Number(s) for a string s: white space is trimmed, the empty string is 0, a
\* signed decimal literal ("12", "1.", ".5", "-0.5") is its value, anything
\* else is NaN
Number(v) ==
    LET t == TrimEnd(TrimStart(v.s))
        neg == t # << >> /\ Head(t) = "-"
        body == IF neg THEN Tail(t) ELSE t
        dots == {i \in 1 .. Len(body) : body[i] = "."}
        ds == SelectSeq(body, LAMBDA c : c \in Digits)
        frac == IF dots = {} THEN 0 ELSE Len(body) - (CHOOSE i \in dots : TRUE)
    IN  IF t = << >> THEN Fin(0, 1)
        ELSE IF /\ \A i \in 1 .. Len(body) : body[i] \in Digits \cup {"."}
                /\ Cardinality(dots) <= 1
                /\ ds # << >>
             THEN Fin((IF neg THEN -1 ELSE 1) * DigitsValue(ds), Pow10(frac))
             ELSE NaN

isNaN(v) == v.k = "nan"
NumberIsInteger(v) == v.k = "fin" /\ v.n % v.d = 0
\* `v >= 0`
GeZero(v) == v.k # "nan" /\ v.n >= 0
\* `v < len` for a length that is a number
LessThan(v, len) == \/ v.k = "fin" /\ v.n < len * v.d
                    \/ v.k = "inf" /\ v.n < 0

\* `array.length`: reading a property of null or undefined throws a TypeError;
\* arrays and strings have a length; any other value gives undefined
HasLength(a) == a.t \in {"array", "string"}
Length(a) == IF a.t = "array" THEN a.len ELSE Len(a.s)
LengthThrows(a) == a.t \in {"null", "undefined"}

Returns(b) == [threw |-> FALSE, val |-> b]
Throws == [threw |-> TRUE, val |-> "TypeError"]

----------------------------------------------------------------------------
(* The predicates *)

\* the test `&& idx` left out: the empty string is coerced too
Coerce_EmptyToo(idx) == IF typeof(idx) = "string" THEN Number(idx) ELSE idx

\* `if (typeof idx === 'string' && idx) idx = Number(idx)`
Coerce(idx) == IF typeof(idx) = "string" /\ Truthy(idx) THEN Number(idx) ELSE idx

\* `typeof idx === 'number' && !isNaN(idx) && Number.isInteger(idx) && idx >= 0`:
\* the conjuncts evaluated before `array.length` is read
IndexShape(idx) ==
    typeof(idx) = "number" /\ ~isNaN(idx) /\ NumberIsInteger(idx) /\ GeZero(idx)

isIndexOf(idx, array) ==
    LET i == Coerce(idx)
    IN  IF ~IndexShape(i) THEN Returns(FALSE)
        ELSE IF LengthThrows(array) THEN Throws
        ELSE Returns(HasLength(array) /\ LessThan(i, Length(array)))

\* `Array.isArray(array)`
isArray(array) == Returns(array.t = "array")

\* `Array.isArray(array) && array.length != 0`
isIndexable(array) == Returns(array.t = "array" /\ array.len # 0)

\* `obj instanceof Promise`
isPromise(obj) == Returns(obj.t = "promise")

\* `text.startsWith('async')`
StartsWithAsync(text) == text # << >> /\ Head(text) = "async"

\* `typeof func === 'function' && func?.toString().startsWith('async')`
isAsyncFunction(func) == Returns(typeof(func) = "function" /\ StartsWithAsync(func.text))

\* one application of a predicate: probe holds its arguments, then its outcome
Apply(fn, out) ==
    /\ probe.fn = "none"
    /\ probe' = [probe EXCEPT !.fn = fn, !.out = out]
    /\ UNCHANGED <<wrappers, timers, nextId, hist, last, promises>>

ApplyIsIndexOf == Apply("isIndexOf", isIndexOf(probe.x, probe.y))
ApplyIsArray == Apply("isArray", isArray(probe.x))
ApplyIsIndexable == Apply("isIndexable", isIndexable(probe.x))
ApplyIsPromise == Apply("isPromise", isPromise(probe.x))
ApplyIsAsyncFunction == Apply("isAsyncFunction", isAsyncFunction(probe.x))

\* the second argument of isIndexOf: arrays, strings and what is no array-like
SecondArgs == Arrays \cup {Str(<<"a", "a">>), Other("null"), Other("undefined"),
                           Other("object")}

PredInit ==
    /\ wrappers = << >>
    /\ timers = {}
    /\ nextId = 1
    /\ hist = << >>
    /\ last = NoEvent
    /\ probe \in [fn : {"none"}, x : Values, y : SecondArgs, out : {Returns(FALSE)}]
    /\ promises = << >>

PredNext ==
    \/ ApplyIsIndexOf
    \/ ApplyIsArray
    \/ ApplyIsIndexable
    \/ ApplyIsPromise
    \/ ApplyIsAsyncFunction

PredSpec == PredInit /\ [][PredNext]_vars

----------------------------------------------------------------------------
(* Properties of the predicates, checked under PredSpec *)

\* idx stands for the whole number k: it is the number k, or a non-empty string
\* whose numeric value is k
IsWhole(idx, k) ==
    \/ idx.t = "number" /\ idx.k = "fin" /\ idx.n = k * idx.d
    \/ /\ idx.t = "string" /\ idx.s # << >>
       /\ Number(idx).k = "fin" /\ Number(idx).n = k * Number(idx).d

\* C9: for an array (or any value with a length), isIndexOf returns true
\* exactly when idx is a number, or a non-empty string coerced to a number,
\* that is a whole number k with 0 <= k < length; so it returns false for the
\* empty string, for NaN, infinities, fractions, negative and out-of-range
\* numbers, and for every value that is neither a string nor a number.
C9_IsIndexOfContract ==
    probe.fn = "isIndexOf" /\ HasLength(probe.y) =>
        /\ ~probe.out.threw
        /\ probe.out.val <=> \E k \in 0 .. Length(probe.y) - 1 : IsWhole(probe.x, k)
        /\ probe.x = Str(<< >>) => probe.out.val = FALSE
        /\ probe.x.t \notin {"string", "number"} => probe.out.val = FALSE

\* isIndexOf returned true for a string index that needed trimming, and for a
\* numeric index, of an array
C9_Witness ==
    /\ probe.fn = "isIndexOf" /\ probe.y \in Arrays
    /\ ~probe.out.threw /\ probe.out.val = TRUE
    /\ probe.x.t = "string" /\ Len(probe.x.s) >= 2

\* C10 as stated: no application of isIndexOf, isArray, isIndexable, isPromise
\* or isAsyncFunction throws; each returns a boolean, also when the array
\* handed to isIndexOf is null or undefined.
C10_AsStated ==
    probe.fn # "none" => ~probe.out.threw /\ probe.out.val \in BOOLEAN

\* C11 as stated: isAsyncFunction returns true for every function declared
\* async and false for every other value: what is no function, and every
\* function not declared async, whatever its name or the way it is written.
C11_AsStated ==
    probe.fn = "isAsyncFunction" =>
        /\ ~probe.out.threw
        /\ probe.out.val <=> (probe.x.t = "function" /\ probe.x.async)

----------------------------------------------------------------------------
(* sleep(ms): new Promise(resolve => setTimeout(resolve, ms)) *)

\* calls of sleep in one run
MaxSleeps == 3

\* the Promise as the executor leaves it: pending, its resolve function handed
\* to the timeout registered under handle
NewPromise(ms, handle) ==
    [state |-> "pending", value |-> "none", ms |-> ms, timer |-> handle]

\* resolve(v): settles a pending Promise, and does nothing to a settled one
Resolve(p, v) ==
    IF p.state = "pending" THEN [p EXCEPT !.state = "resolved", !.value = v] ELSE p

\* an executor that calls resolve itself instead of handing it to the timeout
sleep_ResolvesAtOnce(ms) ==
    /\ Len(promises) < MaxSleeps
    /\ promises' = Append(promises, Resolve(NewPromise(ms, nextId), "undefined"))
    /\ timers' = setTimeout(timers, nextId, Len(promises) + 1, "resolve", "none", ms)
    /\ nextId' = nextId + 1
    /\ last' = NoEvent
    /\ UNCHANGED <<wrappers, hist, probe>>

\* sleep(ms): the executor runs inside the call and registers the timeout
sleep(ms) ==
    /\ Len(promises) < MaxSleeps
    /\ promises' = Append(promises, NewPromise(ms, nextId))
    /\ timers' = setTimeout(timers, nextId, Len(promises) + 1, "resolve", "none", ms)
    /\ nextId' = nextId + 1
    /\ last' = NoEvent
    /\ UNCHANGED <<wrappers, hist, probe>>

\* the host runs the timeout: it calls resolve with no argument
ResolveTimeout(t) ==
    /\ t \in timers
    /\ t.cb = "resolve"
    /\ Due(t)
    /\ timers' = timers \ {t}
    /\ promises' = [promises EXCEPT ![t.w] = Resolve(@, "undefined")]
    /\ last' = NoEvent
    /\ UNCHANGED <<wrappers, nextId, hist, probe>>

SleepInit ==
    /\ wrappers = << >>
    /\ timers = {}
    /\ nextId = 1
    /\ hist = << >>
    /\ last = NoEvent
    /\ probe = NoProbe
    /\ promises = << >>

SleepNext ==
    \/ \E ms \in Delays : sleep(ms)
    \/ \E t \in timers : ResolveTimeout(t)
    \/ Tick

SleepSpec == SleepInit /\ [][SleepNext]_vars

\* The host keeps its clock running and runs a timeout that is due.
SleepFairSpec ==
    /\ SleepSpec
    /\ WF_vars(Tick)
    /\ WF_vars(\E t \in timers : ResolveTimeout(t))

\* the timeout a Promise of sleep waits for is still registered
Waiting(p) == \E t \in timers : t.id = p.timer /\ t.cb = "resolve"

\* what C12 says of every state: a Promise of sleep is pending or resolved,
\* never rejected; it is pending exactly while its timeout is registered, so it
\* is not resolved before that timeout has fired; resolved, it holds no value
C12_SleepInvariant ==
    \A i \in DOMAIN promises :
        /\ promises[i].state \in {"pending", "resolved"}
        /\ promises[i].state = "pending" <=> Waiting(promises[i])
        /\ promises[i].state = "resolved" => promises[i].value = "undefined"
        /\ promises[i].state = "pending" => promises[i].value = "none"

\* C12: for every ms, also ms <= 0, the Promise sleep(ms) returns is pending
\* when sleep returns, is never rejected, is resolved only by the host running
\* the timeout sleep registered (not before it is due), with no value, stays
\* resolved, and under the host's fairness is resolved in the end without the
\* caller doing anything.
C12_SleepResolves ==
    /\ []C12_SleepInvariant
    /\ [][/\ \A i \in DOMAIN promises' \ DOMAIN promises :
                promises'[i].state = "pending"
          /\ \A i \in DOMAIN promises :
                /\ promises[i].state = "resolved" => promises'[i] = promises[i]
                /\ promises'[i] # promises[i] =>
                      \E t \in timers : /\ t.id = promises[i].timer
                                        /\ Due(t)
                                        /\ timers' = timers \ {t}]_vars
    /\ \A i \in 1 .. MaxSleeps :
          (i \in DOMAIN promises /\ promises[i].state = "pending")
              ~> (i \in DOMAIN promises /\ promises[i].state = "resolved")

\* a sleep(ms) with ms <= 0 and one with ms > 0 have resolved with no value
\* while a later one is still pending
C12_Witness ==
    /\ \E i \in DOMAIN promises :
          /\ promises[i].ms <= 0
          /\ promises[i].state = "resolved" /\ promises[i].value = "undefined"
    /\ \E i \in DOMAIN promises :
          promises[i].ms > 0 /\ promises[i].state = "resolved"
    /\ \E i \in DOMAIN promises : promises[i].state = "pending"

----------------------------------------------------------------------------
(* unique, remove and randomString *)

\* the longest array handed to unique and remove
MaxArr == 3
\* the most base-36 digits Math.random().toString(36) has after "0."
MaxDigits == 3

\* array elements: two numbers, NaN and the two zeros
Elems == {"1", "2", "NaN", "+0", "-0"}
Zeros == {"+0", "-0"}
ElemArrays == UNION {[1 .. k -> Elems] : k \in 0 .. MaxArr}

\* SameValueZero, the equality of Set: NaN equals NaN, +0 equals -0
SameValueZero(a, b) == a = b \/ (a \in Zeros /\ b \in Zeros)

\* `===`, the equality of indexOf: as SameValueZero, but NaN equals nothing
StrictEquals(a, b) == a # "NaN" /\ b # "NaN" /\ SameValueZero(a, b)

\* a Set.add that keeps what is already there
SetAdd_Always(set, v) == Append(set, v)

\* Set.prototype.add: -0 is stored as +0; a value already in the set is not
\* added again; the set keeps insertion order
SetAdd(set, v) ==
    LET x == IF v = "-0" THEN "+0" ELSE v
    IN  IF \E i \in 1 .. Len(set) : SameValueZero(set[i], x) THEN set
        ELSE Append(set, x)

\* new Set(array): the elements added in array order
RECURSIVE NewSet(_)
NewSet(array) ==
    IF array = << >> THEN << >>
    ELSE SetAdd(NewSet(SubSeq(array, 1, Len(array) - 1)), array[Len(array)])

\* Array.from(set): a new array of the set's values in insertion order
ArrayFrom(set) == [i \in 1 .. Len(set) |-> set[i]]

\* `Array.from(new Set(array))`
unique(array) == ArrayFrom(NewSet(array))

\* array.indexOf(item): the 0-based index of the first element `===` item, or -1
indexOf(array, item) ==
    LET hits == {i \in 1 .. Len(array) : StrictEquals(array[i], item)}
    IN  IF hits = {} THEN -1
        ELSE (CHOOSE i \in hits : \A j \in hits : i <= j) - 1

\* array.splice(start, deleteCount): a negative start counts from the end;
\* gives the removed elements and what is left in the array
splice(array, start, deleteCount) ==
    LET len == Len(array)
        from == IF start < 0 THEN (IF len + start < 0 THEN 0 ELSE len + start)
                ELSE (IF start > len THEN len ELSE start)
        want == IF deleteCount < 0 THEN 0 ELSE deleteCount
        cnt == IF want > len - from THEN len - from ELSE want
    IN  [removed |-> SubSeq(array, from + 1, from + cnt),
         array |-> SubSeq(array, 1, from) \o SubSeq(array, from + cnt + 1, len)]

\* `const idx = array.indexOf(item); return array.splice(idx, 1)`
remove(item, array) == splice(array, indexOf(array, item), 1)

\* base-36 digits as they appear in the text
Base36 == {"7", "k"}
DigitSeqs == UNION {[1 .. k -> Base36] : k \in 0 .. MaxDigits}

\* Math.random().toString(36): "0" for 0, else "0." and the digits
RandomText(digits) == IF digits = << >> THEN <<"0">> ELSE <<"0", ".">> \o digits

\* text.substring(start, end): both clamped to the text, swapped when start > end
substring(text, start, end) ==
    LET Clamp(k) == IF k < 0 THEN 0 ELSE IF k > Len(text) THEN Len(text) ELSE k
        a == Clamp(start)
        b == Clamp(end)
        from == IF a < b THEN a ELSE b
        to == IF a < b THEN b ELSE a
    IN  SubSeq(text, from + 1, to)

\* `Math.random().toString(36).substring(2, length)`
randomString(length, digits) == substring(RandomText(digits), 2, length)

ApplyUnique ==
    /\ probe.fn = "none" /\ probe.kind = "array"
    /\ probe' = [probe EXCEPT !.fn = "unique", !.out = unique(probe.arr)]
    /\ UNCHANGED <<wrappers, timers, nextId, hist, last, promises>>

ApplyRemove ==
    /\ probe.fn = "none" /\ probe.kind = "array"
    /\ probe' = [probe EXCEPT !.fn = "remove",
                              !.out = remove(probe.item, probe.arr).removed,
                              !.arr = remove(probe.item, probe.arr).array]
    /\ UNCHANGED <<wrappers, timers, nextId, hist, last, promises>>

ApplyRandomString ==
    /\ probe.fn = "none" /\ probe.kind = "random"
    /\ probe' = [probe EXCEPT !.fn = "randomString",
                              !.out = randomString(probe.n, probe.digits)]
    /\ UNCHANGED <<wrappers, timers, nextId, hist, last, promises>>

\* arr0 is the array as handed over, arr the same array object afterwards
ArrayInputs ==
    {[fn |-> "none", kind |-> "array", arr0 |-> a, arr |-> a, item |-> x, out |-> << >>] :
        a \in ElemArrays, x \in Elems}
RandomInputs ==
    {[fn |-> "none", kind |-> "random", n |-> n, digits |-> d, out |-> << >>] :
        n \in 0 .. MaxDigits + 1, d \in DigitSeqs}

ArrayInit ==
    /\ wrappers = << >>
    /\ timers = {}
    /\ nextId = 1
    /\ hist = << >>
    /\ last = NoEvent
    /\ promises = << >>
    /\ probe \in ArrayInputs \cup RandomInputs

ArrayNext ==
    \/ ApplyUnique
    \/ ApplyRemove
    \/ ApplyRandomString

ArraySpec == ArrayInit /\ [][ArrayNext]_vars

----------------------------------------------------------------------------
(* Properties of unique, randomString and remove, checked under ArraySpec *)

\* the first place of xs that holds x, by the equality of Set
FirstPlace(xs, x) ==
    CHOOSE i \in 1 .. Len(xs) :
        /\ SameValueZero(xs[i], x)
        /\ \A j \in 1 .. i - 1 : ~SameValueZero(xs[j], x)

\* C13: unique(unique(xs)) equals unique(xs) element by element; unique(xs)
\* holds every distinct element of xs (distinct by the equality of Set, under
\* which NaN is one value and the two zeros are one value) exactly once, in
\* the order of first occurrence in xs; xs itself is not modified.
C13_UniqueIdempotent ==
    probe.fn = "unique" =>
        LET xs == probe.arr0
            r == probe.out
        IN  /\ unique(r) = r
            /\ probe.arr = xs
            /\ \A i \in 1 .. Len(xs) : \E j \in 1 .. Len(r) : SameValueZero(xs[i], r[j])
            /\ \A j \in 1 .. Len(r) : \E i \in 1 .. Len(xs) : SameValueZero(xs[i], r[j])
            /\ \A i \in 1 .. Len(r) : \A j \in 1 .. Len(r) :
                  i < j => /\ ~SameValueZero(r[i], r[j])
                           /\ FirstPlace(xs, r[i]) < FirstPlace(xs, r[j])

\* unique was applied to an array of three whose first element comes again
\* at the end, and gave the two distinct ones
C13_Witness ==
    /\ probe.fn = "unique"
    /\ Len(probe.arr0) = 3 /\ probe.arr0[1] = probe.arr0[3]
    /\ probe.arr0[1] # probe.arr0[2] /\ Len(probe.out) = 2

\* C14 as stated: for a length n that is at most the number of base-36 digits
\* available, randomString(n) returns a string of exactly n characters.
C14_AsStated ==
    probe.fn = "randomString" /\ probe.n <= Len(probe.digits) =>
        Len(probe.out) = probe.n

\* C15 as stated: remove(item, array) takes out of array exactly the first
\* occurrence of item, keeps the other elements in order and returns an array
\* holding only the removed item; when item does not occur in array, the
\* array is left as it was and nothing is removed.
C15_AsStated ==
    probe.fn = "remove" =>
        LET xs == probe.arr0
            at == {i \in 1 .. Len(xs) : StrictEquals(xs[i], probe.item)}
        IN  IF at = {}
            THEN probe.arr = xs /\ probe.out = << >>
            ELSE LET i == CHOOSE i \in at : \A j \in at : i <= j
                 IN  /\ probe.arr = SubSeq(xs, 1, i - 1) \o SubSeq(xs, i + 1, Len(xs))
                     /\ probe.out = <<xs[i]>>

----------------------------------------------------------------------------
(* fn raising inside a throttled call, checked under Spec *)

\* C16: when fn raises in a call of a throttled wrapper made while no cooldown
\* timer is pending, the call ends with that exception (nothing in the wrapper
\* catches it) and leaves the wrapper and the host's timers as they were: no
\* cooldown timer is started; so the next call of the wrapper invokes fn
\* again, however little time has passed.
C16_ThrowLeavesState ==
    /\ [][\A w \in Throttles :
             hist'[w].calls # hist[w].calls /\ Called(w)' /\ last'.threw =>
                 /\ last'.invoked
                 /\ Pending(w) = {} /\ TimerOf(w) = null
                 /\ wrappers' = wrappers
                 /\ timers' = timers
                 /\ nextId' = nextId]_vars
    /\ [](\A w \in Throttles :
             /\ hist[w].threw => TimerOf(w) = null /\ Pending(w) = {}
             /\ Called(w) /\ last.prevThrew => last.invoked)

\* fn raised in a call of a throttled wrapper with delay > 0, and the next call,
\* made with no time passed, ran fn again
C16_Witness ==
    \E w \in Throttles :
        /\ wrappers[w].delay > 0
        /\ Called(w) /\ last.prevThrew /\ last.invoked /\ last.since = 0
        /\ hist[w].calls = 2 /\ hist[w].invoked = 2

====
